---- MODULE Spec2Model ----
(***************************************************************************)
(* SEO Fibonacci Analysis Tool: the wide-format row normalizer             *)
(* (transformSEMrushData), the series builder (processRawData), the        *)
(* volatility scorer (calculateVolatility) and the retracement queries of  *)
(* SEOFibonacciAnalyzer, driven by the upload handler of main.js; the      *)
(* long-format adapter (validateSEMrushFormat, transformSEMrushData,       *)
(* formatDate) and the prediction confidence that app.js calls.            *)
(*                                                                         *)
(* Strings the code inspects character by character (column names, cell    *)
(* texts, date strings) are sequences of one-character strings.            *)
(* Floating-point level values are kept exactly, in thousandths.           *)
(***************************************************************************)
EXTENDS Integers, Sequences, FiniteSets, TLC

\* ------------------------------------------------------------ bounds
\* Rows of an uploaded file of the analysis family.
MaxRows == 2

\* handleFileUpload invocations that may be awaiting their file at once.
MaxInFlight == 1

\* handleFileUpload invocations awaiting their file at once where uploads
\* are made to overlap.
MaxOverlap == 2

\* Swing patterns handed to calculatePredictionConfidence, and the touches
\* of one of them.
MaxPatterns == 2

MaxTouches == 3

\* Keywords of one rendered list.
MaxListed == 2

\* ------------------------------------------------------------ characters
Digits == <<"0", "1", "2", "3", "4", "5", "6", "7", "8", "9">>

IsDigit(c) == \E i \in 1..10 : Digits[i] = c

DigitValue(c) == (CHOOSE i \in 1..10 : Digits[i] = c) - 1

\* Order of the characters the families use, as JavaScript's string
\* comparison (UTF-16 code units) and localeCompare both order them:
\* punctuation, then digits, then lower-case letters.
Alphabet == <<" ", "-", "/", ".", "_">> \o Digits \o
            <<"a", "b", "c", "d", "e", "g", "i", "l", "m", "n", "p", "t", "x", "y">>

CharRank(c) == CHOOSE i \in 1..Len(Alphabet) : Alphabet[i] = c

\* a < b for strings: the first differing character decides, a proper
\* prefix is smaller.
RECURSIVE StrLess(_, _)
StrLess(a, b) ==
    IF b = <<>> THEN FALSE
    ELSE IF a = <<>> THEN TRUE
    ELSE IF Head(a) = Head(b) THEN StrLess(Tail(a), Tail(b))
    ELSE CharRank(Head(a)) < CharRank(Head(b))

\* String.prototype.substring(from, to) with 0-based, end-exclusive
\* indices clamped to the string.
Substring(s, from, to) ==
    LET lo == IF from > Len(s) THEN Len(s) ELSE from
        hi == IF to > Len(s) THEN Len(s) ELSE to
    IN  [i \in 1..(hi - lo) |-> s[lo + i]]

\* String.prototype.includes(needle)
Includes(s, needle) ==
    \E i \in 0..(Len(s) - Len(needle)) :
        \A j \in 1..Len(needle) : s[i + j] = needle[j]

\* String.prototype.lastIndexOf('_'), 0-based, -1 when absent
LastIndexOfUnderscore(s) ==
    IF \E i \in 1..Len(s) : s[i] = "_"
    THEN (CHOOSE i \in 1..Len(s) : s[i] = "_" /\ \A j \in (i + 1)..Len(s) : s[j] # "_") - 1
    ELSE -1

\* s.split('_').pop(): the text after the last underscore (the whole
\* string when it has none).
LastSegment(s) == Substring(s, LastIndexOfUnderscore(s) + 1, Len(s))

\* ------------------------------------------------------------ cells
\* A parsed CSV cell (PapaParse with dynamicTyping): a number, a text or
\* null (an empty cell).
Num(n) == [t |-> "num", n |-> n, s |-> <<>>]
Str(s) == [t |-> "str", n |-> 0, s |-> s]
Null == [t |-> "null", n |-> 0, s |-> <<>>]

\* Value of a run of digits.
RECURSIVE DigitsValue(_, _)
DigitsValue(s, acc) ==
    IF s = <<>> THEN acc
    ELSE DigitsValue(Tail(s), acc * 10 + DigitValue(Head(s)))

\* Longest prefix of s made of digits.
RECURSIVE DigitPrefix(_)
DigitPrefix(s) ==
    IF s = <<>> \/ ~IsDigit(Head(s)) THEN <<>>
    ELSE <<Head(s)>> \o DigitPrefix(Tail(s))

RECURSIVE TrimLeft(_)
TrimLeft(s) == IF s # <<>> /\ Head(s) = " " THEN TrimLeft(Tail(s)) ELSE s

\* parseInt(text): leading blanks, an optional sign, then the longest run
\* of digits; NaN (ok = FALSE) when no digit follows.
ParseIntText(s) ==
    LET t == TrimLeft(s)
        neg == t # <<>> /\ Head(t) = "-"
        body == IF neg THEN Tail(t) ELSE t
        ds == DigitPrefix(body)
    IN  IF ds = <<>> THEN [ok |-> FALSE, n |-> 0]
        ELSE [ok |-> TRUE, n |-> IF neg THEN 0 - DigitsValue(ds, 0) ELSE DigitsValue(ds, 0)]

\* parseInt(cell): a number is converted to text and parsed back (itself,
\* for the integers of the families); null gives NaN.
parseInt(cell) ==
    IF cell.t = "num" THEN [ok |-> TRUE, n |-> cell.n]
    ELSE IF cell.t = "str" THEN ParseIntText(cell.s)
    ELSE [ok |-> FALSE, n |-> 0]

\* parseFloat(cell) || 0 for the search volume: NaN and 0 both give 0.
\* The families hold no decimal point, so the parsed prefix is an integer.
VolumeOf(cell) == IF parseInt(cell).ok THEN parseInt(cell).n ELSE 0
\* ------------------------------------------------------------ sorting
\* Array.prototype.sort and _.sortBy are stable sorts: for a comparator
\* that is a total preorder, the element at index i ends up behind exactly
\* the elements that are smaller and the equal ones that came before it.
\* before[i][j] is the comparator's verdict that seq[i] sorts before seq[j].
SortedIndex(seq, i, before) ==
    1 + Cardinality({j \in 1..Len(seq) :
            \/ before[j][i]
            \/ (j < i /\ ~before[i][j])})

StableSort(seq, before) ==
    [p \in 1..Len(seq) |->
        seq[CHOOSE i \in 1..Len(seq) : SortedIndex(seq, i, before) = p]]

\* ------------------------------------------------------------ raw rows
\* A parsed file is [header, rows]: header lists the column names after
\* "Keyword" and "Search Volume" in file order (Object.keys order of every
\* row); a row is [Keyword, Volume, cells] with cells[i] under header[i].
\* A missing keyword (empty cell) is JsNull.
JsNull == "<null>"

Truthy(keyword) == keyword # JsNull /\ keyword # ""

\* row[col]: the cell under that column; undefined (which parseInt and
\* `|| ''` treat as null) when the file has no such column.
CellAt(header, row, col) ==
    IF \E i \in 1..Len(header) : header[i] = col
    THEN row.cells[CHOOSE i \in 1..Len(header) :
                      header[i] = col /\ \A j \in 1..(i - 1) : header[j] # col]
    ELSE Null

\* Object.keys(row).filter(...): the date columns of a row.
IsDateColumn(key) ==
    /\ Includes(key, <<"_", "2", "0", "2">>)
    /\ ~Includes(key, <<"_", "t", "y", "p", "e">>)
    /\ ~Includes(key, <<"_", "l", "a", "n", "d", "i", "n", "g">>)

DateColumns(header) == SelectSeq(header, IsDateColumn)

\* dateColumns.sort((a, b) => a.split('_').pop().localeCompare(...))
SortDateColumns(cols) ==
    StableSort(cols, [i \in 1..Len(cols) |-> [j \in 1..Len(cols) |->
        StrLess(LastSegment(cols[i]), LastSegment(cols[j]))]])

\* `${year}-${month}-${day}` from the last segment of the column name.
DateString(dateCol) ==
    LET datePart == LastSegment(dateCol)
    IN  Substring(datePart, 0, 4) \o <<"-">> \o Substring(datePart, 4, 6)
            \o <<"-">> \o Substring(datePart, 6, 8)

\* `${dateCol.substring(0, dateCol.lastIndexOf('_'))}_${datePart}_landing`
LandingColumn(dateCol) ==
    Substring(dateCol, 0, LastIndexOfUnderscore(dateCol)) \o <<"_">>
        \o LastSegment(dateCol) \o <<"_", "l", "a", "n", "d", "i", "n", "g">>

\* row[landingCol] || ''
UrlOf(header, row, dateCol) ==
    LET cell == CellAt(header, row, LandingColumn(dateCol))
    IN  IF cell.t = "str" THEN cell.s ELSE <<>>

\* The entry pushed for one date column of one row. src is not a field of
\* the pushed object: it records the row index and the column the entry was
\* read from, for the properties that speak of them.
Entry(header, r, row, dateCol) ==
    [src |-> [row |-> r, col |-> dateCol],
     Keyword |-> row.Keyword,
     Date |-> DateString(dateCol),
     Position |-> parseInt(CellAt(header, row, dateCol)).n,
     URL |-> UrlOf(header, row, dateCol),
     Volume |-> VolumeOf(row.Volume)]

\* A loop that leaves the row at its first cell that does not parse
\* (a return from the row instead of from the cell).
RowEntriesUntilBadCell(header, r, row) ==
    LET cols == SortDateColumns(DateColumns(header))
        n == Cardinality({i \in 1..Len(cols) :
                \A j \in 1..i : parseInt(CellAt(header, row, cols[j])).ok})
    IN  [i \in 1..n |-> Entry(header, r, row, cols[i])]

\* dateColumns.forEach(dateCol => ...): one entry per date column whose
\* cell parses, in sorted column order; a cell that does not parse is
\* skipped alone.
RowEntries(header, r, row) ==
    LET cols == SortDateColumns(DateColumns(header))
        kept == SelectSeq(cols, LAMBDA c : parseInt(CellAt(header, row, c)).ok)
    IN  [i \in 1..Len(kept) |-> Entry(header, r, row, kept[i])]

RECURSIVE Flatten(_)
Flatten(seqs) == IF seqs = <<>> THEN <<>> ELSE Head(seqs) \o Flatten(Tail(seqs))

\* transformSEMrushData of the logging lineage: a row without keyword, or
\* without date columns, is skipped whole.
transformSEMrushData(file) ==
    Flatten([r \in 1..Len(file.rows) |->
        IF ~Truthy(file.rows[r].Keyword) THEN <<>>
        ELSE IF DateColumns(file.header) = <<>> THEN <<>>
        ELSE RowEntries(file.header, r, file.rows[r])])

\* transformSEMrushData of the earlier wide-format lineage: no keyword
\* guard.
transformSEMrushDataPlain(file) ==
    Flatten([r \in 1..Len(file.rows) |-> RowEntries(file.header, r, file.rows[r])])
\* ------------------------------------------------------------ series builder
\* new Date(text): a YYYY-MM-DD text is a valid date whose time value grows
\* with (year, month, day); any other text of the families is an Invalid
\* Date (time value NaN). Days past the end of a month are not in the
\* families (engines disagree on them).
AllDigits(s) == \A i \in 1..Len(s) : IsDigit(s[i])

NewDate(text) ==
    LET shaped == /\ Len(text) = 10
                  /\ text[5] = "-" /\ text[8] = "-"
                  /\ AllDigits(SubSeq(text, 1, 4))
                  /\ AllDigits(SubSeq(text, 6, 7))
                  /\ AllDigits(SubSeq(text, 9, 10))
        y == DigitsValue(SubSeq(text, 1, 4), 0)
        m == DigitsValue(SubSeq(text, 6, 7), 0)
        d == DigitsValue(SubSeq(text, 9, 10), 0)
    IN  IF shaped /\ m \in 1..12 /\ d \in 1..31
        THEN [valid |-> TRUE, time |-> (y * 12 + (m - 1)) * 31 + (d - 1)]
        ELSE [valid |-> FALSE, time |-> 0]

\* A score not yet assigned (the property is absent from the object).
Undefined == [kind |-> "undefined", neg |-> FALSE, num |-> 0, den |-> 1]

\* The key _.groupBy files a record under: String(record.Keyword).
\* A grouping key that folds the case of the keyword.
GroupKeyFolded(keyword) ==
    IF keyword = JsNull THEN "null" ELSE IF keyword = "Shoes" THEN "shoes" ELSE keyword

GroupKey(keyword) == IF keyword = JsNull THEN "null" ELSE keyword

\* The keys in order of last occurrence, latest first.
GroupKeysLatestFirst(data) ==
    LET lasts == SelectSeq([i \in 1..Len(data) |-> i],
                      LAMBDA i : \A j \in (i + 1)..Len(data) :
                          GroupKey(data[j].Keyword) # GroupKey(data[i].Keyword))
    IN  [g \in 1..Len(lasts) |-> GroupKey(data[lasts[Len(lasts) + 1 - g]].Keyword)]

\* Object.keys(_.groupBy(data, 'Keyword')): the keys in order of first
\* occurrence (no keyword of the families is an integer-like key).
GroupKeys(data) ==
    LET firsts == SelectSeq([i \in 1..Len(data) |-> i],
                      LAMBDA i : \A j \in 1..(i - 1) :
                          GroupKey(data[j].Keyword) # GroupKey(data[i].Keyword))
    IN  [g \in 1..Len(firsts) |-> GroupKey(data[firsts[g]].Keyword)]

\* a < b for two Date values of one kind: texts compare as texts, Date
\* objects by time value (never, when either is an Invalid Date).
DateBefore(kind, a, b) ==
    IF kind = "text" THEN StrLess(a, b)
    ELSE a.valid /\ b.valid /\ a.time < b.time

\* new Date(value): parses a text, copies a Date object.
ToDate(kind, value) == IF kind = "text" THEN NewDate(value) ELSE value

\* A sort that is not stable: entries of equal Date come out in reverse.
SortByDateUnstable(entries, kind) ==
    LET rev == [i \in 1..Len(entries) |-> entries[Len(entries) + 1 - i]]
    IN  StableSort(rev, [i \in 1..Len(rev) |-> [j \in 1..Len(rev) |->
            DateBefore(kind, rev[i].Date, rev[j].Date)]])

\* _.sortBy(entries, 'Date'): ascending by Date, stable. kind is the kind
\* of the Date values: "text" for the normalizer's entries.
SortByDate(entries, kind) ==
    StableSort(entries, [i \in 1..Len(entries) |-> [j \in 1..Len(entries) |->
        DateBefore(kind, entries[i].Date, entries[j].Date)]])

\* KeywordData with the volume of the entry that is first by date.
KeywordDataOfSorted(keyword, entries, kind) ==
    [keyword |-> keyword,
     searchVolume |-> SortByDate(entries, kind)[1].Volume,
     positions |-> [i \in 1..Len(entries) |->
                       [date |-> ToDate(kind, SortByDate(entries, kind)[i].Date),
                        position |-> SortByDate(entries, kind)[i].Position,
                        url |-> SortByDate(entries, kind)[i].URL]],
     volatilityScore |-> Undefined]

\* The KeywordData object built for one group.
KeywordData(keyword, entries, kind) ==
    [keyword |-> keyword,
     \* parseInt(entries[0].Volume) || 0: the volume the normalizer
     \* stored is an integer and parses to itself
     searchVolume |-> entries[1].Volume,
     positions |-> [i \in 1..Len(entries) |->
                       [date |-> ToDate(kind, SortByDate(entries, kind)[i].Date),
                        position |-> SortByDate(entries, kind)[i].Position,
                        url |-> SortByDate(entries, kind)[i].URL]],
     volatilityScore |-> Undefined]

\* The body of processRawData for a non-empty array: the new this.keywords.
BuildSeries(data, kind) ==
    LET keys == GroupKeys(data)
    IN  [g \in 1..Len(keys) |->
            KeywordData(keys[g],
                SelectSeq(data, LAMBDA e : GroupKey(e.Keyword) = keys[g]), kind)]

\* processRawData(data) on the normalizer's entries, whose Date is a text.
processRawData(data) == BuildSeries(data, "text")

\* groupByKeyword(data): the Map as its entries in insertion order, each a
\* key and the items filed under it.
groupByKeyword(data) ==
    LET firsts == SelectSeq([i \in 1..Len(data) |-> i],
                      LAMBDA i : \A j \in 1..(i - 1) : data[j].keyword # data[i].keyword)
    IN  [g \in 1..Len(firsts) |->
            [key |-> data[firsts[g]].keyword,
             items |-> SelectSeq(data, LAMBDA e : e.keyword = data[firsts[g]].keyword)]]

\* ------------------------------------------------------------ volatility
VOLATILITY_THRESHOLD == 10

Abs(x) == IF x < 0 THEN 0 - x ELSE x

RECURSIVE Sum(_)
Sum(seq) == IF seq = <<>> THEN 0 ELSE Head(seq) + Sum(Tail(seq))

RECURSIVE Gcd(_, _)
Gcd(a, b) == IF b = 0 THEN a ELSE Gcd(b, a % b)

PositionsOf(kd) == [i \in 1..Len(kd.positions) |-> kd.positions[i].position]

\* positions.slice(1).map((pos, i) => Math.abs(pos - positions[i]))
Changes(positions) ==
    [i \in 1..(Len(positions) - 1) |-> Abs(positions[i + 1] - positions[i])]

\* The score taken from the mean change instead of the standard deviation
\* of the changes: mean / avgPosition * 100.
VolatilityScoreOfMean(positions) ==
    LET changes == Changes(positions)
        n == Len(changes)
        m == Len(positions)
        S == Sum(positions)
        num == 10000 * Sum(changes) * Sum(changes) * m * m
        den == n * n * S * S
    IN  IF S = 0 THEN [kind |-> IF Sum(changes) = 0 THEN "NaN" ELSE "Infinity",
                       neg |-> FALSE, num |-> 0, den |-> 1]
        ELSE [kind |-> "number", neg |-> (S < 0 /\ Sum(changes) > 0),
              num |-> num \div Gcd(num, den), den |-> den \div Gcd(num, den)]

\* (stdDev / avgPosition) * 100 kept exactly. With n changes c and m
\* positions of sum S, n^2 * variance = V = n * sum(c^2) - sum(c)^2, so the
\* score is 100 * sqrt(V) * m / (n * S): its square is num / den, its sign
\* that of S. S = 0 gives 0/0 = NaN when V = 0 and Infinity otherwise.
VolatilityScore(positions) ==
    LET changes == Changes(positions)
        n == Len(changes)
        m == Len(positions)
        V == n * Sum([i \in 1..n |-> changes[i] * changes[i]]) - Sum(changes) * Sum(changes)
        S == Sum(positions)
        num == 10000 * V * m * m
        den == n * n * S * S
        g == Gcd(num, den)
    IN  IF S = 0 THEN [kind |-> IF V = 0 THEN "NaN" ELSE "Infinity",
                       neg |-> FALSE, num |-> 0, den |-> 1]
        ELSE [kind |-> "number", neg |-> (S < 0 /\ V > 0),
              num |-> num \div g, den |-> den \div g]

\* volatilityScore >= CONFIG.VOLATILITY_THRESHOLD
AboveOrAtThreshold(score) ==
    \/ score.kind = "Infinity"
    \/ /\ score.kind = "number"
       /\ ~score.neg
       /\ score.num >= VOLATILITY_THRESHOLD * VOLATILITY_THRESHOLD * score.den

\* volatilityScore > CONFIG.VOLATILITY_THRESHOLD
AboveThreshold(score) ==
    \/ score.kind = "Infinity"
    \/ /\ score.kind = "number"
       /\ ~score.neg
       /\ score.num > VOLATILITY_THRESHOLD * VOLATILITY_THRESHOLD * score.den

\* a > b for the scores of two keywords (a missing score counts as 0).
ScoreGreater(a, b) ==
    LET za == IF a.kind = "undefined" THEN [a EXCEPT !.kind = "number"] ELSE a
        zb == IF b.kind = "undefined" THEN [b EXCEPT !.kind = "number"] ELSE b
    IN  IF za.kind = "NaN" \/ zb.kind = "NaN" THEN FALSE
        ELSE IF zb.kind = "Infinity" THEN FALSE
        ELSE IF za.kind = "Infinity" THEN TRUE
        ELSE IF za.neg /\ zb.neg THEN za.num * zb.den < zb.num * za.den
        ELSE IF za.neg THEN FALSE
        ELSE IF zb.neg THEN TRUE
        ELSE za.num * zb.den > zb.num * za.den

\* The forEach without its early return: a series of one point gets the
\* score 0 / 0 of its empty list of changes.
ScoredKeywordsNoReturn(kws) ==
    [i \in 1..Len(kws) |->
        IF Len(Changes(PositionsOf(kws[i]))) = 0
        THEN [kws[i] EXCEPT !.volatilityScore =
                 [kind |-> "NaN", neg |-> FALSE, num |-> 0, den |-> 1]]
        ELSE [kws[i] EXCEPT !.volatilityScore = VolatilityScore(PositionsOf(kws[i]))]]

\* The forEach of calculateVolatility: a series with no change (one point)
\* is left without score; the others get theirs.
ScoredKeywords(kws) ==
    [i \in 1..Len(kws) |->
        IF Len(Changes(PositionsOf(kws[i]))) = 0 THEN kws[i]
        ELSE [kws[i] EXCEPT !.volatilityScore = VolatilityScore(PositionsOf(kws[i]))]]

\* getKeywordData(keyword): the first entry of that name, or null.
HasKeyword(kws, keyword) == \E i \in 1..Len(kws) : kws[i].keyword = keyword

getKeywordData(kws, keyword) ==
    kws[CHOOSE i \in 1..Len(kws) :
            kws[i].keyword = keyword /\ \A j \in 1..(i - 1) : kws[j].keyword # keyword]

ScoreOf(kws, keyword) ==
    IF HasKeyword(kws, keyword) THEN getKeywordData(kws, keyword).volatilityScore
    ELSE Undefined

\* The names pushed by the forEach, left in the order of the push.
VolatileKeywordsUnsorted(kws) ==
    LET pushed == SelectSeq([i \in 1..Len(kws) |-> kws[i]],
                      LAMBDA kd : Len(kd.positions) > 1 /\ AboveThreshold(kd.volatilityScore))
    IN  [i \in 1..Len(pushed) |-> pushed[i].keyword]

\* The names pushed by the forEach, then sorted by score descending
\* (scoreB - scoreA; a NaN difference compares as equal).
VolatileKeywords(kws) ==
    LET pushed == SelectSeq([i \in 1..Len(kws) |-> kws[i]],
                      LAMBDA kd : Len(kd.positions) > 1 /\ AboveThreshold(kd.volatilityScore))
        names == [i \in 1..Len(pushed) |-> pushed[i].keyword]
    IN  StableSort(names, [i \in 1..Len(names) |-> [j \in 1..Len(names) |->
            ScoreGreater(ScoreOf(kws, names[i]), ScoreOf(kws, names[j]))]])

\* calculateVolatility that keeps the names it pushed the last time.
calculateVolatilityNoReset(volatile, kws) == VolatileKeywords(kws) \o volatile

\* calculateVolatility(): this.volatileKeywords, whatever it held, is set to
\* [] before the forEach pushes.
calculateVolatility(volatile, kws) ==
    LET emptied == <<>>
    IN  emptied \o VolatileKeywords(kws)

\* A length test that no array meets (length < 0 for length === 0).
InvalidOrEmptyNever(data) == Len(data) < 0

\* !Array.isArray(data) || data.length === 0: what the normalizer returns
\* is always an array.
InvalidOrEmpty(data) == Len(data) = 0

\* ------------------------------------------------------------ retracement
\* A level list with two digits of one ratio swapped.
FIBONACCI_LEVELS_Typo == <<0, 236, 382, 500, 618, 768, 1000>>

\* CONFIG.FIBONACCI_LEVELS, in thousandths.
FIBONACCI_LEVELS == <<0, 236, 382, 500, 618, 786, 1000>>

PATTERN_TOLERANCE == 2

\* Denominator of the fixed-point level values: a level value v stands for
\* v / Milli. For the positions of the families the double computed by
\* maxPosition - range * level compares with an integer exactly as the
\* fixed-point value does.
Milli == 1000

\* Math.min(...positions), Math.max(...positions)
MathMin(positions) ==
    CHOOSE x \in {positions[i] : i \in 1..Len(positions)} :
        \A i \in 1..Len(positions) : x <= positions[i]

MathMax(positions) ==
    CHOOSE x \in {positions[i] : i \in 1..Len(positions)} :
        \A i \in 1..Len(positions) : x >= positions[i]

\* The retracement measured up from the best rank instead of down from the
\* worst one.
LevelValueFromLow(minPosition, maxPosition, level) ==
    minPosition * Milli + (maxPosition - minPosition) * level

\* levels[level] = maxPosition - (range * level)
LevelValue(minPosition, maxPosition, level) ==
    maxPosition * Milli - (maxPosition - minPosition) * level

\* Property order of the levels object: the integer-like keys "0" and "1"
\* enumerate first, ascending, then the others in insertion order.
IsIndexKey(level) == level % Milli = 0

LevelKeyOrder ==
    LET keys == SelectSeq(FIBONACCI_LEVELS, IsIndexKey)
    IN  StableSort(keys, [i \in 1..Len(keys) |-> [j \in 1..Len(keys) |-> keys[i] < keys[j]]])
        \o SelectSeq(FIBONACCI_LEVELS, LAMBDA l : ~IsIndexKey(l))

\* calculateFibonacciLevels for a known keyword: Object.entries(levels).
FibonacciLevelsOf(kd) ==
    LET positions == PositionsOf(kd)
        minPosition == MathMin(positions)
        maxPosition == MathMax(positions)
    IN  [i \in 1..Len(LevelKeyOrder) |->
            [level |-> LevelKeyOrder[i],
             value |-> LevelValue(minPosition, maxPosition, LevelKeyOrder[i])]]

\* calculateFibonacciLevels(keyword): null for an unknown keyword.
calculateFibonacciLevels(kws, keyword) ==
    IF ~HasKeyword(kws, keyword) THEN [null |-> TRUE, levels |-> <<>>]
    ELSE [null |-> FALSE, levels |-> FibonacciLevelsOf(getKeywordData(kws, keyword))]

\* A bounce test that accepts a neighbour of equal rank (>= for >).
PatternsAtOrEqual(kd, fibLevels, i) ==
    LET prevPos == kd.positions[i - 1].position
        currentPos == kd.positions[i].position
        nextPos == kd.positions[i + 1].position
        support == prevPos >= currentPos /\ nextPos >= currentPos
        resistance == prevPos <= currentPos /\ nextPos <= currentPos
        near == SelectSeq(fibLevels, LAMBDA l :
                    Abs(currentPos * Milli - l.value) <= PATTERN_TOLERANCE * Milli)
    IN  IF ~(support \/ resistance) THEN <<>>
        ELSE [j \in 1..Len(near) |->
                [at |-> i,
                 date |-> kd.positions[i].date,
                 position |-> currentPos,
                 fibLevel |-> near[j].level,
                 bounceType |-> IF support THEN "Support" ELSE "Resistance"]]

\* The patterns one interior point i registers, one per level in range.
\* at is not a field of the pushed object: it records the index of the
\* point, for the properties that speak of it.
PatternsAt(kd, fibLevels, i) ==
    LET prevPos == kd.positions[i - 1].position
        currentPos == kd.positions[i].position
        nextPos == kd.positions[i + 1].position
        support == prevPos > currentPos /\ nextPos > currentPos
        resistance == prevPos < currentPos /\ nextPos < currentPos
        near == SelectSeq(fibLevels, LAMBDA l :
                    Abs(currentPos * Milli - l.value) <= PATTERN_TOLERANCE * Milli)
    IN  IF ~(support \/ resistance) THEN <<>>
        ELSE [j \in 1..Len(near) |->
                [at |-> i,
                 date |-> kd.positions[i].date,
                 position |-> currentPos,
                 fibLevel |-> near[j].level,
                 bounceType |-> IF support THEN "Support" ELSE "Resistance"]]

\* findFibonacciPatterns(keyword): [] for an unknown keyword; the first
\* and the last point are skipped.
findFibonacciPatterns(kws, keyword) ==
    IF ~HasKeyword(kws, keyword) THEN <<>>
    ELSE LET kd == getKeywordData(kws, keyword)
             fibLevels == FibonacciLevelsOf(kd)
         IN  Flatten([i \in 1..Len(kd.positions) |->
                 IF i = 1 \/ i = Len(kd.positions) THEN <<>>
                 ELSE PatternsAt(kd, fibLevels, i)])

\* The patterns taken as a fraction of the points instead of the moves.
calculateFibonacciReliabilityOfPoints(kws, keyword) ==
    LET patterns == findFibonacciPatterns(kws, keyword)
    IN  IF Len(patterns) = 0 \/ ~HasKeyword(kws, keyword) THEN [num |-> 0, den |-> 1]
        ELSE LET points == Len(getKeywordData(kws, keyword).positions)
                 g == Gcd(Len(patterns) * 100, points)
             IN  [num |-> (Len(patterns) * 100) \div g, den |-> points \div g]

\* calculateFibonacciReliability(keyword): (patternsFound / totalMoves) * 100
\* as the fraction num / den in lowest terms; 0 without patterns.
calculateFibonacciReliability(kws, keyword) ==
    LET patterns == findFibonacciPatterns(kws, keyword)
    IN  IF Len(patterns) = 0 \/ ~HasKeyword(kws, keyword) THEN [num |-> 0, den |-> 1]
        ELSE LET totalMoves == Len(getKeywordData(kws, keyword).positions) - 1
                 g == Gcd(Len(patterns) * 100, totalMoves)
             IN  [num |-> (Len(patterns) * 100) \div g, den |-> totalMoves \div g]

\* predictNextRanking(keyword): null for an unknown keyword and when the
\* previous position is missing or falsy (0).
NoLevel == [null |-> TRUE, level |-> 0, value |-> 0]

\* predictNextRanking with the trend read the other way round.
predictNextRankingOfRise(kws, keyword) ==
    IF ~HasKeyword(kws, keyword) THEN NoLevel
    ELSE LET kd == getKeywordData(kws, keyword)
             n == Len(kd.positions)
             currentPos == kd.positions[n].position
         IN  IF n < 2 \/ kd.positions[IF n < 2 THEN 1 ELSE n - 1].position = 0 THEN NoLevel
             ELSE LET prevPos == kd.positions[n - 1].position
                      fib == FibonacciLevelsOf(kd)
                      levels == StableSort(fib, [i \in 1..Len(fib) |->
                                    [j \in 1..Len(fib) |-> fib[i].value < fib[j].value]])
                      below == SelectSeq(levels, LAMBDA l : l.value < currentPos * Milli)
                      above == SelectSeq(levels, LAMBDA l : l.value > currentPos * Milli)
                      pick == IF currentPos > prevPos
                              THEN IF below # <<>> THEN below[1] ELSE levels[1]
                              ELSE IF above # <<>> THEN above[Len(above)]
                                   ELSE levels[Len(levels)]
                  IN  [null |-> FALSE, level |-> pick.level, value |-> pick.value]

predictNextRanking(kws, keyword) ==
    IF ~HasKeyword(kws, keyword) THEN NoLevel
    ELSE LET kd == getKeywordData(kws, keyword)
             n == Len(kd.positions)
             currentPos == kd.positions[n].position
         IN  IF n < 2 \/ kd.positions[IF n < 2 THEN 1 ELSE n - 1].position = 0 THEN NoLevel
             ELSE LET prevPos == kd.positions[n - 1].position
                      fib == FibonacciLevelsOf(kd)
                      levels == StableSort(fib, [i \in 1..Len(fib) |->
                                    [j \in 1..Len(fib) |-> fib[i].value < fib[j].value]])
                      below == SelectSeq(levels, LAMBDA l : l.value < currentPos * Milli)
                      above == SelectSeq(levels, LAMBDA l : l.value > currentPos * Milli)
                      pick == IF currentPos < prevPos
                              THEN IF below # <<>> THEN below[1] ELSE levels[1]
                              ELSE IF above # <<>> THEN above[Len(above)]
                                   ELSE levels[Len(levels)]
                  IN  [null |-> FALSE, level |-> pick.level, value |-> pick.value]
\* ------------------------------------------------------------ confidence
\* calculatePredictionConfidence(patterns, positions) of the swing-pattern
\* analyzer that app.js calls: the capped weighted sum of the number of
\* patterns, the touches of the most recent pattern relative to the minimum
\* touch count, and the fraction of the moves that do not reverse the move
\* before them. Weights in tenths; the value is the fraction num / den.
MIN_TOUCHES == 2

WEIGHT_PATTERNS == 3

WEIGHT_STRENGTH == 4

WEIGHT_TREND == 3

\* Moves that reverse the sign of the move before them.
Reversals(positions) ==
    Cardinality({i \in 2..(Len(positions) - 1) :
        (positions[i + 1] - positions[i]) * (positions[i] - positions[i - 1]) < 0})

\* The weighted sum over the common denominator 10 * MIN_TOUCHES * moves.
WeightedSum(patterns, positions) ==
    LET count == Len(patterns)
        touches == IF count = 0 THEN 0 ELSE patterns[count].touches
        moves == IF Len(positions) > 1 THEN Len(positions) - 1 ELSE 1
        kept == IF Len(positions) > 1 THEN moves - Reversals(positions) ELSE 0
    IN  [num |-> WEIGHT_PATTERNS * count * MIN_TOUCHES * moves
                 + WEIGHT_STRENGTH * touches * moves
                 + WEIGHT_TREND * kept * MIN_TOUCHES,
         den |-> 10 * MIN_TOUCHES * moves]

\* The weighted sum without its cap.
calculatePredictionConfidenceUncapped(patterns, positions) ==
    WeightedSum(patterns, positions)

calculatePredictionConfidence(patterns, positions) ==
    LET sum == WeightedSum(patterns, positions)
    IN  IF sum.num > sum.den THEN [num |-> sum.den, den |-> sum.den] ELSE sum

\* ------------------------------------------------------------ long format
\* The long-format adapter (one row per keyword and date) read by app.js:
\* PapaParse without dynamicTyping and with transform v => v.trim(), so
\* every cell is a trimmed text. A parsed file is [header, rows]: header
\* lists the column names (Object.keys of every row), a row is
\* [Keyword, Date, Position]; Keyword is a name, Date and Position are
\* texts, character by character.

\* config.js as the adapter finds it: "part_000" is the CONFIG object of
\* the sources, which has no SEMRUSH key; "SEMRUSH" is a CONFIG that
\* carries the SEMRUSH block the adapter reads.
Configs == {"part_000", "SEMRUSH"}

\* CONFIG.SEMRUSH.REQUIRED_COLUMNS and CONFIG.SEMRUSH.POSITION_RANGE of
\* the second configuration.
REQUIRED_COLUMNS == <<"Keyword", "Date", "Position">>

POSITION_RANGE_MIN == 1

POSITION_RANGE_MAX == 100

\* What a call of the adapter ends in: a return (threw = "none") with the
\* records returned, or a throw with its error class and message.
Returned(records) == [threw |-> "none", message |-> "", records |-> records]

Thrown(class, message) == [threw |-> class, message |-> message, records |-> <<>>]

\* REQUIRED_COLUMNS.filter(col => !Object.keys(firstRow).includes(col))
MissingColumns(header) ==
    SelectSeq(REQUIRED_COLUMNS, LAMBDA col : \A i \in 1..Len(header) : header[i] # col)

\* validateSEMrushFormat(data): reading CONFIG.SEMRUSH.REQUIRED_COLUMNS
\* of a CONFIG without SEMRUSH is a TypeError.
validateSEMrushFormat(config, file) ==
    IF Len(file.rows) = 0
    THEN Thrown("Error", "Invalid data format: Empty or not an array")
    ELSE IF config = "part_000"
    THEN Thrown("TypeError", "Cannot read properties of undefined")
    ELSE IF Len(MissingColumns(file.header)) > 0
    THEN Thrown("Error", "Missing required columns")
    ELSE Returned(<<>>)

\* row[col]: undefined when the file has no such column; in the filter an
\* undefined Keyword or Date is as falsy as the empty text, and parseInt of
\* an undefined Position is NaN as that of the empty text is.
FieldOf(header, row, col) ==
    IF \E i \in 1..Len(header) : header[i] = col THEN row[col]
    ELSE IF col = "Keyword" THEN "" ELSE <<>>

\* The filter callback of transformSEMrushData.
RowAccepted(header, row) ==
    LET position == ParseIntText(FieldOf(header, row, "Position"))
    IN  /\ position.ok
        /\ position.n >= POSITION_RANGE_MIN
        /\ position.n <= POSITION_RANGE_MAX
        /\ FieldOf(header, row, "Keyword") # ""
        /\ FieldOf(header, row, "Date") # <<>>

\* n in decimal, width digits, zero-padded.
Pow10(k) == IF k = 0 THEN 1 ELSE IF k = 1 THEN 10 ELSE IF k = 2 THEN 100 ELSE 1000

DigitsOf(n, width) == [i \in 1..width |-> Digits[((n \div Pow10(width - i)) % 10) + 1]]

\* date.toISOString().split('T')[0] of a valid Date.
ToISODate(date) ==
    DigitsOf(date.time \div (12 * 31), 4) \o <<"-">> \o
    DigitsOf(((date.time \div 31) % 12) + 1, 2) \o <<"-">> \o
    DigitsOf((date.time % 31) + 1, 2)

\* formatDate(dateStr): a text of 8 characters is cut into YYYY-MM-DD; any
\* other goes through new Date and throws when that is an Invalid Date.
formatDate(dateStr) ==
    IF Len(dateStr) = 8
    THEN [threw |-> FALSE,
          text |-> SubSeq(dateStr, 1, 4) \o <<"-">> \o SubSeq(dateStr, 5, 6)
                   \o <<"-">> \o SubSeq(dateStr, 7, 8)]
    ELSE IF ~NewDate(dateStr).valid
    THEN [threw |-> TRUE, text |-> dateStr]
    ELSE [threw |-> FALSE, text |-> ToISODate(NewDate(dateStr))]

\* The object the map callback returns for the row at index r of the file
\* (row: ghost field, the index of the row the record was made from).
\* The families have no Search Volume column: parseInt(undefined) || 0.
LongRecord(rows, r) ==
    [keyword |-> rows[r].Keyword,
     position |-> ParseIntText(rows[r].Position).n,
     searchVolume |-> 0,
     date |-> formatDate(rows[r].Date).text,
     timestamp |-> NewDate(formatDate(rows[r].Date).text),
     row |-> r]

\* transformSEMrushData(rawData) of the long format: validate, filter,
\* map, sort by timestamp. A throw of formatDate inside the map callback
\* leaves the map, and the function, with that error.
transformSEMrushDataLong(config, file) ==
    LET valid == validateSEMrushFormat(config, file)
        kept == SelectSeq([r \in 1..Len(file.rows) |-> r],
                          LAMBDA r : RowAccepted(file.header, file.rows[r]))
        mapped == [i \in 1..Len(kept) |-> LongRecord(file.rows, kept[i])]
    IN  IF valid.threw # "none" THEN valid
        ELSE IF \E i \in 1..Len(kept) : formatDate(file.rows[kept[i]].Date).threw
        THEN Thrown("Error", "Invalid date format")
        ELSE Returned(StableSort(mapped,
                 [i \in 1..Len(mapped) |-> [j \in 1..Len(mapped) |->
                     /\ mapped[i].timestamp.valid
                     /\ mapped[j].timestamp.valid
                     /\ mapped[i].timestamp.time < mapped[j].timestamp.time]]))

\* ------------------------------------------------------------ input families
ColJan == <<"x", "_", "2", "0", "2", "4", "0", "1", "0", "1">>
ColFeb == <<"x", "_", "2", "0", "2", "4", "0", "2", "0", "1">>
ColMar == <<"y", "_", "2", "0", "2", "4", "0", "3", "0", "1">>
ColJanLanding == ColJan \o <<"_", "l", "a", "n", "d", "i", "n", "g">>
ColJanType == ColJan \o <<"_", "t", "y", "p", "e">>
\* a date column with a device suffix after the date token
ColJanMobile == ColJan \o <<"_", "m">>
ColTags == <<"t", "a", "g">>

Dash == Str(<<"-">>)

\* Analysis family: up to MaxRows rows over two date columns listed out
\* of date order. The first row is "shoes" and may hold the "not ranked"
\* dash; later rows are "shoes" or "Shoes" and hold a rank in every cell.
\* Row i carries the search volume 100 * i.
AnalysisHeader == <<ColFeb, ColJan>>

AnalysisRanks == {Num(1), Num(3)}

AnalysisCells == {Dash} \cup AnalysisRanks

AnalysisChoices == [Keyword : {"shoes", "Shoes"},
                    cells : [1..Len(AnalysisHeader) -> AnalysisCells]]

AnalysisRow(i, choice) ==
    IF i = 1 THEN choice.Keyword = "shoes"
    ELSE \A j \in 1..Len(AnalysisHeader) : choice.cells[j] \in AnalysisRanks

AnalysisFiles ==
    UNION {{[header |-> AnalysisHeader,
             rows |-> [i \in 1..n |-> [Keyword |-> c[i].Keyword,
                                       Volume |-> Num(100 * i),
                                       cells |-> c[i].cells]]] :
               c \in {d \in [1..n -> AnalysisChoices] :
                         \A i \in 1..n : AnalysisRow(i, d[i])}} :
           n \in 1..MaxRows}

\* Mixed family: a volatile "shoes" row (ranks 1, 1, 3 over three dates)
\* followed by a "Shoes" row with any cells.
MixedHeader == <<ColMar, ColJan, ColFeb>>

MixedFiles ==
    {[header |-> MixedHeader,
      rows |-> <<[Keyword |-> "shoes", Volume |-> Num(100),
                  cells |-> <<Num(3), Num(1), Num(1)>>],
                 [Keyword |-> "Shoes", Volume |-> Num(200), cells |-> c]>>] :
        c \in [1..Len(MixedHeader) -> AnalysisCells]}

\* Export family: one row of a raw export with landing, type and suffixed
\* columns, ranks 0, texts with a numeric prefix, empty cells, a row without
\* keyword and a volume that is no number; one file without any date
\* column; and the file without rows.
ExportHeader == <<ColFeb, ColJan, ColJanLanding, ColJanType, ColJanMobile>>

ExportFiles ==
    {[header |-> ExportHeader,
      rows |-> <<[Keyword |-> k, Volume |-> lv[2],
                  cells |-> <<feb, jan, lv[1], Str(<<"t">>), mobile>>]>>] :
        k \in {"shoes", JsNull},
        lv \in {<<Str(<<"/", "p">>), Num(1000)>>, <<Null, Str(<<"n", "/", "a">>)>>},
        feb \in {Dash, Num(0), Num(5)},
        jan \in {Num(0), Str(<<" ", "7", "x">>), Null},
        mobile \in {Null, Num(2)}}
    \cup {[header |-> <<ColTags>>,
           rows |-> <<[Keyword |-> "shoes", Volume |-> Num(1000), cells |-> <<Num(5)>>]>>],
          [header |-> ExportHeader, rows |-> <<>>]}

Files == AnalysisFiles \cup MixedFiles \cup ExportFiles

\* Scorer family: up to MaxRows + 1 keywords, one row each, over three
\* dates. In date order the ranks of a row are 1, 1, 3 (score 60),
\* 3, 3, 1 (score 300 / 7), 14, 14, 17 (score 10, the threshold itself),
\* 1, 1, 1 (score 0) or a single 1.
ScorerKeywords == <<"hats", "shoes", "socks", "ties">>

ScorerCells == {<<Num(3), Num(1), Num(1)>>,
                <<Num(1), Num(3), Num(3)>>,
                <<Num(17), Num(14), Num(14)>>,
                <<Num(1), Num(1), Num(1)>>,
                <<Dash, Num(1), Dash>>}

ScorerFiles ==
    UNION {{[header |-> MixedHeader,
             rows |-> [i \in 1..n |-> [Keyword |-> ScorerKeywords[i],
                                       Volume |-> Num(100 * i),
                                       cells |-> c[i]]]] :
               c \in [1..n -> ScorerCells]} :
           n \in 1..(MaxRows + 1)}

\* Session family: the files a user picks one after another. A volatile
\* "shoes"; a volatile "Shoes" next to a "shoes" of one rank; a flat
\* "shoes"; a file without rows; a file without date column.
SessionFiles ==
    {[header |-> MixedHeader,
      rows |-> <<[Keyword |-> "shoes", Volume |-> Num(100),
                  cells |-> <<Num(3), Num(1), Num(1)>>]>>],
     [header |-> MixedHeader,
      rows |-> <<[Keyword |-> "Shoes", Volume |-> Num(200),
                  cells |-> <<Num(1), Num(3), Num(3)>>],
                 [Keyword |-> "shoes", Volume |-> Num(300),
                  cells |-> <<Dash, Num(1), Dash>>]>>],
     [header |-> MixedHeader,
      rows |-> <<[Keyword |-> "shoes", Volume |-> Num(400),
                  cells |-> <<Num(1), Num(1), Num(1)>>]>>],
     [header |-> MixedHeader, rows |-> <<>>],
     [header |-> <<ColTags>>,
      rows |-> <<[Keyword |-> "shoes", Volume |-> Num(1000), cells |-> <<Num(5)>>]>>]}

\* The two lineages of the upload path kept in the repository: "v1" is the
\* earlier handler with the unguarded normalizer, "v2" the later handler
\* with the logging normalizer. They differ on rows without keyword, on
\* files without date column and on files that yield no entry, which only
\* the export family holds: the other families are loaded in "v2".
Builds == {"v1", "v2"}

\* Long family: every file of up to MaxRows rows under the three required
\* columns, and files that lack one of them.
LongDates == {<<"2", "0", "2", "4", "0", "2", "0", "1">>,
              <<"2", "0", "2", "4", "-", "0", "1", "-", "0", "1">>,
              <<"s", "o", "o", "n">>,
              <<>>}

LongPositions == {<<"3">>, <<"0">>, <<"x">>}

LongRows == [Keyword : {"shoes", ""}, Date : LongDates, Position : LongPositions]

LongRowLists == UNION {[1..n -> LongRows] : n \in 0..MaxRows}

ShortHeaders == {<<"Keyword", "Date">>, <<"Keyword", "Position">>, <<"Date", "Position">>,
                 <<"Keyword">>}

ShortRowLists ==
    {<<>>,
     <<[Keyword |-> "shoes", Date |-> <<"2", "0", "2", "4", "0", "2", "0", "1">>,
        Position |-> <<"3">>]>>,
     <<[Keyword |-> "shoes", Date |-> <<"s", "o", "o", "n">>, Position |-> <<"3">>],
       [Keyword |-> "shoes", Date |-> <<"2", "0", "2", "4", "0", "2", "0", "1">>,
        Position |-> <<"3">>]>>}

LongFiles ==
    {[header |-> REQUIRED_COLUMNS, rows |-> rows] : rows \in LongRowLists}
    \cup {[header |-> h, rows |-> rows] : h \in ShortHeaders, rows \in ShortRowLists}

\* Prediction family: the session family and a series that turns (1, 3, 1).
PredictionFiles ==
    SessionFiles \cup
    {[header |-> MixedHeader,
      rows |-> <<[Keyword |-> "shoes", Volume |-> Num(500),
                  cells |-> <<Num(1), Num(1), Num(3)>>]>>]}

\* Swing patterns accepted by the swing analyzer: each has at least the
\* minimum touch count.
SwingPatterns ==
    UNION {[1..n -> [touches : MIN_TOUCHES..MaxTouches]] : n \in 0..MaxPatterns}

\* ------------------------------------------------------------ state
VARIABLES
    build,             \* which lineage is loaded (long format: which config.js)
    fileInput,         \* csvFileInput.files: <<>> or <<file>>
    pending,           \* files of the handleFileUpload calls awaiting readFile
    rawData,           \* parsedResult.data of the last finished handler
    transformedData,   \* transformedData of the last finished handler
    keywords,          \* analyzer.keywords
    volatileKeywords,  \* analyzer.volatileKeywords
    status,            \* the last showStatus
    result,            \* the value the last analyzer query returned to its caller
                       \* (dropped when a handler runs)
    replaced,          \* history: the last finished handler put its series in
                       \* the place of other series the analyzer held
    keywordList,       \* the checkboxes of ui.keywordList, in document order
    selectedKeywords,  \* ui.selectedKeywords
    selectAllCheckbox, \* ui.selectAllCheckbox
    analyzeSelectedButton  \* ui.analyzeSelectedButton

vars == <<build, fileInput, pending, rawData, transformedData, keywords, volatileKeywords,
          status, result, replaced, keywordList, selectedKeywords, selectAllCheckbox,
          analyzeSelectedButton>>

uiVars == <<keywordList, selectedKeywords, selectAllCheckbox, analyzeSelectedButton>>

\* The controller as constructed: nothing listed, nothing selected, the
\* button of the page not yet usable.
UIConstructed ==
    /\ keywordList = <<>>
    /\ selectedKeywords = {}
    /\ selectAllCheckbox = [checked |-> FALSE]
    /\ analyzeSelectedButton = [disabled |-> TRUE]

Status(type, text) == [type |-> type, text |-> text, total |-> 0, volatile |-> 0]

NoResult == [op |-> "none", keyword |-> "", value |-> <<>>]

\* new SEOFibonacciAnalyzer(), a file chosen in the file input or none.
Init ==
    /\ \/ build = "v2" /\ fileInput \in {<<f>> : f \in AnalysisFiles \cup MixedFiles}
       \/ build \in Builds /\ fileInput \in {<<>>} \cup {<<f>> : f \in ExportFiles}
    /\ pending = <<>>
    /\ rawData = [header |-> <<>>, rows |-> <<>>]
    /\ transformedData = <<>>
    /\ keywords = <<>>
    /\ volatileKeywords = <<>>
    /\ status = Status("none", "")
    /\ result = NoResult
    /\ replaced = FALSE
    /\ UIConstructed

\* The same page, with a file of the session family chosen or none.
SessionInit ==
    /\ build \in Builds
    /\ fileInput \in {<<>>} \cup {<<f>> : f \in SessionFiles}
    /\ pending = <<>>
    /\ rawData = [header |-> <<>>, rows |-> <<>>]
    /\ transformedData = <<>>
    /\ keywords = <<>>
    /\ volatileKeywords = <<>>
    /\ status = Status("none", "")
    /\ result = NoResult
    /\ replaced = FALSE
    /\ UIConstructed

\* The user picks another file in the file input.
SelectFile ==
    /\ \E f \in SessionFiles : fileInput' = <<f>>
    /\ fileInput' # fileInput
    /\ UNCHANGED <<build, pending, rawData, transformedData, keywords, volatileKeywords,
                   status, result, replaced, uiVars>>

Transform(file) ==
    IF build = "v1" THEN transformSEMrushDataPlain(file) ELSE transformSEMrushData(file)

\* handleFileUpload with no file chosen.
UploadWithoutFile ==
    /\ fileInput = <<>>
    /\ status' = Status("error", "select a file")
    /\ result' = NoResult
    /\ UNCHANGED <<build, fileInput, pending, rawData, transformedData, keywords,
                   volatileKeywords, replaced, uiVars>>

\* handleFileUpload up to `await readFile(file)`.
BeginUpload ==
    /\ fileInput # <<>>
    /\ Len(pending) < MaxInFlight
    /\ pending' = Append(pending, fileInput[1])
    /\ status' = Status("info", "processing")
    /\ result' = NoResult
    /\ UNCHANGED <<build, fileInput, rawData, transformedData, keywords, volatileKeywords,
                   replaced, uiVars>>

\* The same step of a click made while up to MaxOverlap - 1 earlier
\* invocations still await their file.
BeginOverlapping ==
    /\ fileInput # <<>>
    /\ Len(pending) < MaxOverlap
    /\ pending' = Append(pending, fileInput[1])
    /\ status' = Status("info", "processing")
    /\ result' = NoResult
    /\ UNCHANGED <<build, fileInput, rawData, transformedData, keywords, volatileKeywords,
                   replaced, uiVars>>

Remove(seq, i) == SubSeq(seq, 1, i - 1) \o SubSeq(seq, i + 1, Len(seq))

\* A handler that stops after processRawData and leaves calculateVolatility
\* to a later step.
RunSuspended(volatile, scored) == volatile

\* processRawData and calculateVolatility are called back to back, with no
\* await between them: the volatile list of the step is that of its series.
RunToCompletion(volatile, scored) == calculateVolatility(volatile, scored)

\* reader.onerror: the promise rejects and the catch reports it.
ReadFails ==
    \E i \in 1..Len(pending) :
        /\ pending' = Remove(pending, i)
        /\ status' = Status("error", "read error")
        /\ result' = NoResult
        /\ UNCHANGED <<build, fileInput, rawData, transformedData, keywords,
                       volatileKeywords, replaced, uiVars>>

\* The rest of handleFileUpload once the file is read: parse, transform,
\* processRawData, calculateVolatility, status. processRawData throws on an
\* empty array (v1) and the later handler returns before calling it (v2):
\* either way the analyzer is left as it was.
ReadCompletes ==
    \E i \in 1..Len(pending) :
    \E data \in {Transform(pending[i])} :
    \E scored \in {ScoredKeywords(processRawData(data))} :
    \E volatile \in {RunToCompletion(volatileKeywords, scored)} :
        /\ pending' = Remove(pending, i)
        /\ rawData' = pending[i]
        /\ transformedData' = data
        /\ IF InvalidOrEmpty(data)
           THEN /\ status' = Status("error",
                                IF build = "v1" THEN "Invalid or empty data provided"
                                ELSE "No valid data found")
                /\ UNCHANGED <<keywords, volatileKeywords, replaced, uiVars>>
           ELSE /\ keywords' = scored
                /\ volatileKeywords' = volatile
                /\ replaced' = (keywords # <<>> /\ keywords # scored)
                /\ UNCHANGED uiVars
                /\ status' = IF volatile = <<>>
                             THEN Status("error", "No volatile keywords found")
                             ELSE [type |-> "success", text |-> "processed",
                                   total |-> Len(scored), volatile |-> Len(volatile)]
        /\ result' = NoResult
        /\ UNCHANGED <<build, fileInput>>

\* Keywords a query may be asked about: those loaded and one that is not.
QueryKeywords == {keywords[i].keyword : i \in 1..Len(keywords)} \cup {"boots"}

\* A query that empties the list it has read.
AnswerAndClear(op, keyword, value) ==
    /\ result' = [op |-> op, keyword |-> keyword, value |-> value]
    /\ keywords' = <<>>
    /\ UNCHANGED <<build, fileInput, pending, rawData, transformedData,
                   volatileKeywords, status, replaced, uiVars>>

\* A query returns its value to the caller and writes nothing.
Answer(op, keyword, value) ==
    /\ result' = [op |-> op, keyword |-> keyword, value |-> value]
    /\ UNCHANGED <<build, fileInput, pending, rawData, transformedData, keywords,
                   volatileKeywords, status, replaced, uiVars>>

QueryLevels ==
    \E k \in QueryKeywords :
        Answer("calculateFibonacciLevels", k, calculateFibonacciLevels(keywords, k))

QueryPatterns ==
    \E k \in QueryKeywords :
        Answer("findFibonacciPatterns", k, findFibonacciPatterns(keywords, k))

QueryReliability ==
    \E k \in QueryKeywords :
        Answer("calculateFibonacciReliability", k,
               calculateFibonacciReliability(keywords, k))

QueryPrediction ==
    \E k \in QueryKeywords :
        Answer("predictNextRanking", k, predictNextRanking(keywords, k))

Next ==
    \/ UploadWithoutFile
    \/ BeginUpload
    \/ ReadFails
    \/ ReadCompletes
    \/ QueryLevels
    \/ QueryPatterns
    \/ QueryReliability
    \/ QueryPrediction

Spec == Init /\ [][Next]_vars

\* A session: the handlers that write the analyzer, with the user changing
\* the chosen file between uploads. The queries, which leave the page and
\* the analyzer as they are, are the business of Spec.
SessionNext ==
    \/ SelectFile
    \/ UploadWithoutFile
    \/ BeginUpload
    \/ ReadFails
    \/ ReadCompletes

SessionSpec == SessionInit /\ [][SessionNext]_vars

\* Overlapping uploads: the user changes the file and clicks again while
\* earlier reads are still awaited; the reads resolve in any order.
OverlapNext ==
    \/ SelectFile
    \/ BeginOverlapping
    \/ ReadFails
    \/ ReadCompletes

OverlapSpec == SessionInit /\ [][OverlapNext]_vars

\* The upload of a file of the scorer family.
ScorerInit ==
    /\ build \in Builds
    /\ fileInput \in {<<f>> : f \in ScorerFiles}
    /\ pending = <<>>
    /\ rawData = [header |-> <<>>, rows |-> <<>>]
    /\ transformedData = <<>>
    /\ keywords = <<>>
    /\ volatileKeywords = <<>>
    /\ status = Status("none", "")
    /\ result = NoResult
    /\ replaced = FALSE
    /\ UIConstructed

ScorerNext ==
    \/ BeginUpload
    \/ ReadFails
    \/ ReadCompletes

ScorerSpec == ScorerInit /\ [][ScorerNext]_vars

\* The analysis of app.js on top of an upload: a file of the prediction
\* family chosen.
PredictionInit ==
    /\ build \in Builds
    /\ fileInput \in {<<f>> : f \in PredictionFiles}
    /\ pending = <<>>
    /\ rawData = [header |-> <<>>, rows |-> <<>>]
    /\ transformedData = <<>>
    /\ keywords = <<>>
    /\ volatileKeywords = <<>>
    /\ status = Status("none", "")
    /\ result = NoResult
    /\ replaced = FALSE
    /\ UIConstructed

\* handleAnalyzeSelected for one selected keyword the analyzer knows: the
\* prediction, with the confidence computed from the patterns of the swing
\* analyzer and the positions of the keyword.
AnalyzeSelected ==
    \E keyword \in {kw \in QueryKeywords : HasKeyword(keywords, kw)} :
    \E prediction \in {predictNextRanking(keywords, keyword)} :
    \E patterns \in SwingPatterns :
        /\ Answer("handleAnalyzeSelected", keyword,
               [prediction |-> prediction,
                patterns |-> patterns,
                confidence |-> calculatePredictionConfidence(patterns,
                                   PositionsOf(getKeywordData(keywords, keyword)))])

PredictionNext ==
    \/ BeginUpload
    \/ ReadFails
    \/ ReadCompletes
    \/ AnalyzeSelected

PredictionSpec == PredictionInit /\ [][PredictionNext]_vars

\* getKeywordData(keyword) || null as a query of its own.
KeywordDataOrNull(kws, keyword) ==
    IF HasKeyword(kws, keyword)
    THEN [null |-> FALSE, data |-> getKeywordData(kws, keyword)]
    ELSE [null |-> TRUE, data |-> <<>>]

QueryKeywordData ==
    \E k \in QueryKeywords :
        Answer("getKeywordData", k, KeywordDataOrNull(keywords, k))

\* The five queries of the analyzer, called in any order and any number
\* of times on what an upload of the prediction family left.
QueryNext ==
    \/ BeginUpload
    \/ ReadFails
    \/ ReadCompletes
    \/ QueryKeywordData
    \/ QueryLevels
    \/ QueryPatterns
    \/ QueryReliability
    \/ QueryPrediction

QuerySpec == PredictionInit /\ [][QueryNext]_vars

\* The long-format adapter on its own: a parsed file of the long family in
\* hand, under either config.js, and the two calls app.js makes of it.
LongInit ==
    /\ build \in Configs
    /\ fileInput \in {<<f>> : f \in LongFiles}
    /\ pending = <<>>
    /\ rawData = [header |-> <<>>, rows |-> <<>>]
    /\ transformedData = <<>>
    /\ keywords = <<>>
    /\ volatileKeywords = <<>>
    /\ status = Status("none", "")
    /\ result = NoResult
    /\ replaced = FALSE
    /\ UIConstructed

\* readFile: validateSEMrushFormat(csvData.data)
CallValidate ==
    \E outcome \in {validateSEMrushFormat(build, fileInput[1])} :
        Answer("validateSEMrushFormat", "", outcome)

\* handleProcessData: transformSEMrushData(rawData)
CallTransform ==
    \E outcome \in {transformSEMrushDataLong(build, fileInput[1])} :
        Answer("transformSEMrushData", "", outcome)

LongNext ==
    \/ CallValidate
    \/ CallTransform

LongSpec == LongInit /\ [][LongNext]_vars
\* ------------------------------------------------------------ selection
\* SEOFibUIController on its own. A keyword and the id of its checkbox
\* are sequences of pieces, "keyword-" being one piece.
UIKeywords == {<<"hats">>, <<"shoes">>, <<"keyword-", "tools">>}

RECURSIVE DistinctLists(_)
DistinctLists(n) ==
    IF n = 0 THEN {<<>>}
    ELSE DistinctLists(n - 1) \cup
         {Append(l, k) : l \in {m \in DistinctLists(n - 1) : Len(m) = n - 1},
                         k \in UIKeywords}

\* The lists renderVolatileKeywordsList is handed: volatile keywords, no
\* name twice.
KeywordLists ==
    {l \in DistinctLists(MaxListed) : \A i, j \in 1..Len(l) : l[i] = l[j] => i = j}

\* What the analyzer handed over may know: every keyword, or all but one.
KnownSets == {UIKeywords, UIKeywords \ {<<"hats">>}}

\* checkbox.id = `keyword-${keyword}`
CheckboxId(keyword) == <<"keyword-">> \o keyword

\* id.replace(piece, ''): the first occurrence taken out
RECURSIVE ReplaceFirst(_, _)
ReplaceFirst(id, piece) ==
    IF id = <<>> THEN <<>>
    ELSE IF Head(id) = piece THEN Tail(id)
    ELSE <<Head(id)>> \o ReplaceFirst(Tail(id), piece)

\* One keyword-item: its checkbox, unchecked, with the keyword its
\* listener closes over.
Checkbox(keyword) == [id |-> CheckboxId(keyword), keyword |-> keyword, checked |-> FALSE]

\* The items the forEach appends, those without data left out.
RECURSIVE RenderedItems(_, _)
RenderedItems(kws, known) ==
    IF kws = <<>> THEN <<>>
    ELSE (IF Head(kws) \in known THEN <<Checkbox(Head(kws))>> ELSE <<>>)
         \o RenderedItems(Tail(kws), known)

\* document.getElementById: the first element of that id.
GetElementById(list, id) ==
    list[CHOOSE i \in 1..Len(list) :
            /\ list[i].id = id
            /\ \A j \in 1..(i - 1) : list[j].id # id]

CheckedCount(list) == Cardinality({i \in 1..Len(list) : list[i].checked})

\* renderVolatileKeywordsList(keywords, analyzer)
renderVolatileKeywordsList ==
    \E kws \in KeywordLists, known \in KnownSets :
        /\ keywordList' = RenderedItems(kws, known)
        /\ selectedKeywords' = {}
        /\ UNCHANGED <<selectAllCheckbox, analyzeSelectedButton>>
        /\ UNCHANGED <<build, fileInput, pending, rawData, transformedData, keywords,
                       volatileKeywords, status, result, replaced>>

\* The user flips one checkbox of the list; its change listener runs
\* handleKeywordSelect(keyword), updateSelectAllState included.
handleKeywordSelect ==
    \E i \in 1..Len(keywordList) :
        \E flipped \in {[keywordList EXCEPT ![i].checked = ~keywordList[i].checked]} :
            \E checkbox \in {GetElementById(flipped, CheckboxId(keywordList[i].keyword))} :
                \E selected \in {IF checkbox.checked
                                 THEN selectedKeywords \cup {keywordList[i].keyword}
                                 ELSE selectedKeywords \ {keywordList[i].keyword}} :
                    /\ keywordList' = flipped
                    /\ selectedKeywords' = selected
                    /\ analyzeSelectedButton' = [disabled |-> Cardinality(selected) = 0]
                    /\ selectAllCheckbox' =
                           [checked |-> CheckedCount(flipped) = Len(flipped)]
                    /\ UNCHANGED <<build, fileInput, pending, rawData, transformedData,
                                   keywords, volatileKeywords, status, result, replaced>>

\* The user flips the "select all" checkbox; its change listener runs
\* handleSelectAll().
handleSelectAll ==
    \E all \in {~selectAllCheckbox.checked} :
        \E named \in {{ReplaceFirst(keywordList[i].id, "keyword-") :
                          i \in 1..Len(keywordList)}} :
            \E selected \in {IF all THEN selectedKeywords \cup named
                             ELSE selectedKeywords \ named} :
                /\ selectAllCheckbox' = [checked |-> all]
                /\ keywordList' = [i \in 1..Len(keywordList) |->
                                      [keywordList[i] EXCEPT !.checked = all]]
                /\ selectedKeywords' = selected
                /\ analyzeSelectedButton' = [disabled |-> Cardinality(selected) = 0]
                /\ UNCHANGED <<build, fileInput, pending, rawData, transformedData,
                               keywords, volatileKeywords, status, result, replaced>>

UIInit ==
    /\ build \in Builds
    /\ fileInput = <<>>
    /\ pending = <<>>
    /\ rawData = [header |-> <<>>, rows |-> <<>>]
    /\ transformedData = <<>>
    /\ keywords = <<>>
    /\ volatileKeywords = <<>>
    /\ status = Status("none", "")
    /\ result = NoResult
    /\ replaced = FALSE
    /\ UIConstructed

UINext ==
    \/ renderVolatileKeywordsList
    \/ handleKeywordSelect
    \/ handleSelectAll

UISpec == UIInit /\ [][UINext]_vars

\* ------------------------------------------------------------ properties
\* The series the last query was about, when the analyzer holds it.
Asked == getKeywordData(keywords, result.keyword)

Answered(op) == result.op = op /\ HasKeyword(keywords, result.keyword)

RankSet(kd) == {kd.positions[i].position : i \in 1..Len(kd.positions)}

\* high and low of a series, as bounds of its set of ranks
IsHigh(kd, hi) == hi \in RankSet(kd) /\ \A p \in RankSet(kd) : p <= hi

IsLow(kd, lo) == lo \in RankSet(kd) /\ \A p \in RankSet(kd) : lo <= p

\* the value the returned levels give for a ratio (in thousandths)
ValuesAt(levels, ratio) == {levels[i].value : i \in {j \in 1..Len(levels) : levels[j].level = ratio}}

\* C1: for every keyword series held by the analyzer,
\* calculateFibonacciReliability returns a value r with 0 <= r <= 100.
C1_ReliabilityWithin0To100 ==
    result.op = "calculateFibonacciReliability" =>
        /\ 0 <= result.value.num
        /\ result.value.num <= 100 * result.value.den

\* C2: for a non-empty position list, calculateFibonacciLevels returns for
\* ratio 0 the maximum position (high) and for ratio 1 the minimum position
\* (low).
C2_BoundaryLevels ==
    Answered("calculateFibonacciLevels") =>
        /\ ~result.value.null
        /\ \E hi \in RankSet(Asked), lo \in RankSet(Asked) :
            /\ IsHigh(Asked, hi) /\ IsLow(Asked, lo)
            /\ ValuesAt(result.value.levels, 0) = {hi * Milli}
            /\ ValuesAt(result.value.levels, Milli) = {lo * Milli}

\* C2 witness: levels were returned for a series whose high and low differ.
C2_Witness ==
    /\ Answered("calculateFibonacciLevels")
    /\ Cardinality(RankSet(Asked)) > 1

\* The seven ratios of the fixed set, in thousandths.
FixedRatios == {0, 236, 382, 500, 618, 786, 1000}

\* The series of the worked example: ranks 10, 5, 8, 3.
ExampleSeries ==
    [keyword |-> "example", searchVolume |-> 0, volatilityScore |-> Undefined,
     positions |-> [i \in 1..4 |-> [date |-> NewDate(<<>>),
                                    position |-> <<10, 5, 8, 3>>[i],
                                    url |-> <<>>]]]

\* C3: for every series and every ratio r of {0, 0.236, 0.382, 0.5, 0.618,
\* 0.786, 1}, level[r] = high - (high - low) * r; a flat series gives seven
\* equal levels; ranks 10, 5, 8, 3 give level[0.5] = 6.5.
C3_LevelFormula ==
    /\ Answered("calculateFibonacciLevels") =>
        \E hi \in RankSet(Asked), lo \in RankSet(Asked) :
            /\ IsHigh(Asked, hi) /\ IsLow(Asked, lo)
            /\ Len(result.value.levels) = Cardinality(FixedRatios)
            /\ \A r \in FixedRatios :
                ValuesAt(result.value.levels, r) = {hi * Milli - (hi - lo) * r}
            /\ (hi = lo => \A i \in 1..Len(result.value.levels) :
                               result.value.levels[i].value = hi * Milli)
    /\ ValuesAt(calculateFibonacciLevels(<<ExampleSeries>>, "example").levels, 500) = {6500}

\* C3 witness: levels were returned for a flat series of several points.
C3_Witness ==
    /\ Answered("calculateFibonacciLevels")
    /\ Len(Asked.positions) > 1
    /\ Cardinality(RankSet(Asked)) = 1

\* The changes of a series are all equal to one another.
EqualChanges(kd) ==
    \A i, j \in 1..(Len(kd.positions) - 1) :
        Abs(kd.positions[i + 1].position - kd.positions[i].position)
            = Abs(kd.positions[j + 1].position - kd.positions[j].position)

\* The series is perfectly flat: every change is 0.
Flat(kd) ==
    \A i \in 1..(Len(kd.positions) - 1) :
        kd.positions[i + 1].position = kd.positions[i].position

RankSum(kd) == Sum(PositionsOf(kd))

IsZero(score) == score.kind = "number" /\ score.num = 0

Series == {keywords[i] : i \in 1..Len(keywords)}

\* C4 as stated: for every series with at least 2 points, the volatility
\* score is 0 if and only if all consecutive position changes are 0.
C4_ZeroIffFlat ==
    \A kd \in Series :
        Len(kd.positions) >= 2 => (IsZero(kd.volatilityScore) <=> Flat(kd))

\* C4 amended: for every series with at least 2 points, the score is 0 if
\* and only if all consecutive absolute changes are equal to one another
\* (a flat series is one such case) and the sum of the positions is not 0;
\* when that sum is 0 the score is NaN or Infinity.
C4_ZeroIffEqualChanges ==
    \A kd \in Series :
        Len(kd.positions) >= 2 =>
            /\ IsZero(kd.volatilityScore) <=> (EqualChanges(kd) /\ RankSum(kd) # 0)
            /\ RankSum(kd) = 0 => kd.volatilityScore.kind \in {"NaN", "Infinity"}

\* C4 witness: a scored series of three points that climbs by equal steps.
C4_Witness ==
    \E kd \in Series :
        /\ Len(kd.positions) >= 3
        /\ EqualChanges(kd) /\ ~Flat(kd)
        /\ IsZero(kd.volatilityScore)
\* The 8-digit token a column name embeds: its first run of 8 digits.
HasToken(col) == \E i \in 0..(Len(col) - 8) : AllDigits(Substring(col, i, i + 8))

TokenOf(col) ==
    LET at == CHOOSE i \in 0..(Len(col) - 8) :
                  /\ AllDigits(Substring(col, i, i + 8))
                  /\ \A j \in 0..(i - 1) : ~AllDigits(Substring(col, j, j + 8))
    IN  Substring(col, at, at + 8)

\* YYYYMMDD as YYYY-MM-DD
Reformat(token) ==
    SubSeq(token, 1, 4) \o <<"-">> \o SubSeq(token, 5, 6) \o <<"-">> \o SubSeq(token, 7, 8)

Records == {transformedData[i] : i \in 1..Len(transformedData)}

\* C5: for every wide-format input row and every record emitted from it,
\* the record's Date equals the YYYY-MM-DD reformatting of the 8-digit
\* token embedded in the name of the column the record was read from.
C5_DateIsReformattedToken ==
    \A e \in Records :
        /\ HasToken(e.src.col)
        /\ e.Date = Reformat(TokenOf(e.src.col))

EndsWith(s, suffix) ==
    Len(s) >= Len(suffix) /\ SubSeq(s, Len(s) - Len(suffix) + 1, Len(s)) = suffix

\* A date column as the wide format defines it: its name embeds an 8-digit
\* token and is not suffixed with a _type or _landing marker.
DateColumnName(col) ==
    /\ HasToken(col)
    /\ ~EndsWith(col, <<"_", "t", "y", "p", "e">>)
    /\ ~EndsWith(col, <<"_", "l", "a", "n", "d", "i", "n", "g">>)

\* The date columns of row r of the parsed file whose cell parses to an
\* integer.
ParsedColumns(r) ==
    {rawData.header[c] : c \in {d \in 1..Len(rawData.header) :
        /\ DateColumnName(rawData.header[d])
        /\ parseInt(rawData.rows[r].cells[d]).ok}}

RecordIndexes(r) == {i \in 1..Len(transformedData) : transformedData[i].src.row = r}

RecordsOfRow(r) ==
    /\ Cardinality(RecordIndexes(r)) = Cardinality(ParsedColumns(r))
    /\ {transformedData[i].src.col : i \in RecordIndexes(r)} = ParsedColumns(r)

C7_PositionsAtLeastOne ==
    \A kd \in Series :
        /\ \A p \in RankSet(kd) : p >= 1
        /\ RankSum(kd) # 0
        /\ kd.volatilityScore.kind \in {"undefined", "number"}

\* The records of the input list filed under a series' keyword, in input
\* order.
RecordsOf(kd) == SelectSeq(transformedData, LAMBDA e : GroupKey(e.Keyword) = kd.keyword)

\* C8: after processRawData the points of every series are sorted
\* non-decreasing by date, and points with equal dates keep the relative
\* order they had in the input record list.
C8_SortedStable ==
    transformedData # <<>> =>
        \A kd \in Series :
            /\ Len(kd.positions) = Len(RecordsOf(kd))
            /\ \A i, j \in 1..Len(kd.positions) :
                (i < j /\ kd.positions[i].date.valid /\ kd.positions[j].date.valid)
                    => kd.positions[i].date.time <= kd.positions[j].date.time
            /\ \A e \in Records :
                NewDate(e.Date).valid =>
                    LET same == SelectSeq(kd.positions, LAMBDA p : p.date = NewDate(e.Date))
                        given == SelectSeq(RecordsOf(kd), LAMBDA x : x.Date = e.Date)
                    IN  /\ Len(same) = Len(given)
                        /\ \A i \in 1..Len(same) :
                            /\ same[i].position = given[i].Position
                            /\ same[i].url = given[i].URL

\* C8 witness: a series holds two points of one date with different ranks,
\* next to a point of another date.
C8_Witness ==
    \E kd \in Series : \E i, j, k \in 1..Len(kd.positions) :
        /\ i # j
        /\ kd.positions[i].date.valid
        /\ kd.positions[i].date = kd.positions[j].date
        /\ kd.positions[i].position # kd.positions[j].position
        /\ kd.positions[k].date # kd.positions[i].date

\* The series builder's output as a record list: one record per point, in
\* series order, carrying the fields processRawData reads.
SeriesRecords(kws) ==
    Flatten([g \in 1..Len(kws) |->
        [i \in 1..Len(kws[g].positions) |->
            [Keyword |-> kws[g].keyword,
             Date |-> kws[g].positions[i].date,
             Position |-> kws[g].positions[i].position,
             URL |-> kws[g].positions[i].url,
             Volume |-> kws[g].searchVolume]]])

Unscored(kws) == [g \in 1..Len(kws) |-> [kws[g] EXCEPT !.volatilityScore = Undefined]]

InList(names, keyword) == \E i \in 1..Len(names) : names[i] = keyword

\* C10: a keyword whose series has exactly 1 point gets no volatility
\* score, is never placed in volatileKeywords and raises no error, yet it
\* stays in the keyword list and counts toward the total keyword count.
C10_SinglePointSeries ==
    /\ \A kd \in Series :
        Len(kd.positions) = 1 =>
            /\ kd.volatilityScore = Undefined
            /\ ~InList(volatileKeywords, kd.keyword)
    /\ \A e \in Records :
        Cardinality({i \in 1..Len(transformedData) :
                GroupKey(transformedData[i].Keyword) = GroupKey(e.Keyword)}) = 1
            => \E kd \in Series :
                  kd.keyword = GroupKey(e.Keyword) /\ Len(kd.positions) = 1
    /\ status.type = "success" => status.total = Len(keywords)

\* C10 witness: an upload that ended in success left a series of one point
\* next to a volatile one.
C10_Witness ==
    /\ status.type = "success"
    /\ \E kd \in Series : Len(kd.positions) = 1
    /\ status.total > status.volatile
\* The level values of a series as the retracement formula gives them
\* (thousandths), from the bounds of its set of ranks.
LevelValues(kd) ==
    {hi * Milli - (hi - lo) * r :
        hi \in {h \in RankSet(kd) : IsHigh(kd, h)},
        lo \in {l \in RankSet(kd) : IsLow(kd, l)},
        r \in FixedRatios}

Current(kd) == kd.positions[Len(kd.positions)].position

Previous(kd) == kd.positions[Len(kd.positions) - 1].position

Improving(kd) == Current(kd) < Previous(kd)

\* the level values strictly beyond the current position, either way
Below(kd) == {v \in LevelValues(kd) : v < Current(kd) * Milli}

Above(kd) == {v \in LevelValues(kd) : v > Current(kd) * Milli}

Least(values) == CHOOSE v \in values : \A w \in values : v <= w

Greatest(values) == CHOOSE v \in values : \A w \in values : v >= w

\* C11: predictNextRanking returns null when the keyword's series has
\* fewer than 2 points, and a non-null level for every series that has at
\* least 2 points.
C11_PredictionIffTwoPoints ==
    Answered("predictNextRanking") =>
        (result.value.null <=> Len(Asked.positions) < 2)

\* C17: for a series of at least 2 points, on an improving trend the
\* predicted level is the nearest one among the levels strictly less than
\* the current position, and on a declining trend the nearest one among the
\* levels strictly greater than it.
C17_NearestLevelBeyond ==
    (Answered("predictNextRanking") /\ ~result.value.null) =>
        /\ (Improving(Asked) /\ Below(Asked) # {})
            => result.value.value = Greatest(Below(Asked))
        /\ (~Improving(Asked) /\ Above(Asked) # {})
            => result.value.value = Least(Above(Asked))

\* C18: when no level lies strictly beyond the current position in the
\* trend direction, predictNextRanking falls back to the lowest-value level
\* on an improving trend and to the highest-value level on a declining
\* one; current = previous counts as declining.
C18_FallbackAtTheBoundary ==
    (Answered("predictNextRanking") /\ Len(Asked.positions) >= 2) =>
        /\ (Improving(Asked) /\ Below(Asked) = {})
            => (~result.value.null /\ result.value.value = Least(LevelValues(Asked)))
        /\ (~Improving(Asked) /\ Above(Asked) = {})
            => (~result.value.null /\ result.value.value = Greatest(LevelValues(Asked)))
\* The value of the level of ratio r for a series (thousandths).
LevelAt(kd, r) ==
    LET hi == CHOOSE h \in RankSet(kd) : IsHigh(kd, h)
        lo == CHOOSE l \in RankSet(kd) : IsLow(kd, l)
    IN  hi * Milli - (hi - lo) * r

Rank(kd, i) == kd.positions[i].position

\* Point i is interior and both neighbours have a greater rank number.
IsSupport(kd, i) ==
    /\ 1 < i /\ i < Len(kd.positions)
    /\ Rank(kd, i - 1) > Rank(kd, i) /\ Rank(kd, i + 1) > Rank(kd, i)

\* Point i is interior and both neighbours have a lesser rank number.
IsResistance(kd, i) ==
    /\ 1 < i /\ i < Len(kd.positions)
    /\ Rank(kd, i - 1) < Rank(kd, i) /\ Rank(kd, i + 1) < Rank(kd, i)

\* The (point, ratio) pairs that are due a pattern.
BouncePairs(kd) ==
    {pr \in (1..Len(kd.positions)) \X FixedRatios :
        /\ IsSupport(kd, pr[1]) \/ IsResistance(kd, pr[1])
        /\ Abs(Rank(kd, pr[1]) * Milli - LevelAt(kd, pr[2])) <= PATTERN_TOLERANCE * Milli}

\* C19: findFibonacciPatterns emits exactly one pattern for each pair
\* (interior point i, level r) within the tolerance with i a strict local
\* extremum, Support when both neighbours have a greater rank number and
\* Resistance when both have a lesser one; nothing for the first and last
\* point, for other points or for levels outside the tolerance; and the
\* patterns come in chronological order of their points.
C19_PatternsExactly ==
    Answered("findFibonacciPatterns") =>
        LET patterns == result.value
        IN  /\ Len(patterns) = Cardinality(BouncePairs(Asked))
            /\ {<<patterns[j].at, patterns[j].fibLevel>> : j \in 1..Len(patterns)}
                   = BouncePairs(Asked)
            /\ \A j \in 1..Len(patterns) :
                /\ patterns[j].position = Rank(Asked, patterns[j].at)
                /\ patterns[j].date = Asked.positions[patterns[j].at].date
                /\ patterns[j].bounceType = "Support" <=> IsSupport(Asked, patterns[j].at)
                /\ patterns[j].bounceType = "Resistance" <=> IsResistance(Asked, patterns[j].at)
            /\ \A j, k \in 1..Len(patterns) :
                j < k =>
                    /\ patterns[j].at <= patterns[k].at
                    /\ (patterns[j].date.valid /\ patterns[k].date.valid)
                           => patterns[j].date.time <= patterns[k].date.time

\* C19 witness: patterns were returned for a point that is near some
\* levels and out of the tolerance of others.
C19_Witness ==
    /\ Answered("findFibonacciPatterns")
    /\ result.value # <<>>
    /\ Len(result.value) < Cardinality(FixedRatios)
\* patternsFound: what findFibonacciPatterns returns for the keyword asked.
PatternsFound == Len(findFibonacciPatterns(keywords, result.keyword))

\* C20: calculateFibonacciReliability equals patternsFound / (n - 1) * 100
\* with n the number of points of the series, and returns 0 without error
\* when no pattern was found, when the series has fewer than 2 points, or
\* when the keyword is unknown.
C20_ReliabilityFormula ==
    result.op = "calculateFibonacciReliability" =>
        /\ result.value.den > 0
        /\ IF ~HasKeyword(keywords, result.keyword) THEN result.value.num = 0
           ELSE IF Len(Asked.positions) < 2 \/ PatternsFound = 0 THEN result.value.num = 0
           ELSE result.value.num * (Len(Asked.positions) - 1)
                    = PatternsFound * 100 * result.value.den

\* C20 witness: a reliability other than 0 was returned for a series that
\* has patterns.
C20_Witness ==
    /\ Answered("calculateFibonacciReliability")
    /\ result.value.num > 0
    /\ PatternsFound > 0

\* The errors the guard of processRawData surfaces in the status line.
EmptyInputErrors == {"Invalid or empty data provided", "No valid data found"}

\* C14: when the input handed to the analyzer is empty, the run fails with
\* the error surfaced and no partial analysis occurs: the handler leaves
\* the keyword series and the volatile keywords exactly as they were.
C14_EmptyInputFails ==
    [][(transformedData' = <<>> /\ pending' # pending /\ ReadCompletes) =>
          /\ status'.type = "error"
          /\ status'.text \in EmptyInputErrors
          /\ keywords' = keywords
          /\ volatileKeywords' = volatileKeywords]_vars

\* C14 witness: an upload without any record ended in the error while the
\* analyzer still holds the series of an earlier upload.
C14_Witness ==
    /\ transformedData = <<>>
    /\ rawData.header # <<>>
    /\ status.type = "error"
    /\ status.text \in EmptyInputErrors
    /\ keywords # <<>>
    /\ volatileKeywords # <<>>

NoDuplicates(names) ==
    \A i \in 1..Len(names) : \A j \in 1..Len(names) : names[i] = names[j] => i = j

\* The points of a series are the records of its keyword, one for one.
PointsOfRecords(kd) ==
    /\ Len(kd.positions) = Len(RecordsOf(kd))
    /\ \A e \in {RecordsOf(kd)[i] : i \in 1..Len(RecordsOf(kd))} :
          Cardinality({i \in 1..Len(kd.positions) :
              /\ kd.positions[i].date = ToDate("text", e.Date)
              /\ kd.positions[i].position = e.Position
              /\ kd.positions[i].url = e.URL})
          = Cardinality({i \in 1..Len(RecordsOf(kd)) :
              /\ RecordsOf(kd)[i].Date = e.Date
              /\ RecordsOf(kd)[i].Position = e.Position
              /\ RecordsOf(kd)[i].URL = e.URL})

\* C16: after every 'process data' invocation that got past the guard, the
\* analyzer state contains only data of the newly loaded input: the series
\* are those of the keywords of the new records, point for point, every
\* score is the score of the series' own points, and every volatile keyword
\* is, once, a series of the new input with a score above the threshold.
C16_OnlyTheNewInput ==
    transformedData # <<>> =>
        /\ {kd.keyword : kd \in Series} = {GroupKey(e.Keyword) : e \in Records}
        /\ NoDuplicates([g \in 1..Len(keywords) |-> keywords[g].keyword])
        /\ \A kd \in Series :
              /\ PointsOfRecords(kd)
              /\ kd.searchVolume = RecordsOf(kd)[1].Volume
              /\ kd.volatilityScore =
                    IF Len(kd.positions) < 2 THEN Undefined
                    ELSE VolatilityScore(PositionsOf(kd))
        /\ NoDuplicates(volatileKeywords)
        /\ \A i \in 1..Len(volatileKeywords) :
              /\ HasKeyword(keywords, volatileKeywords[i])
              /\ AboveThreshold(ScoreOf(keywords, volatileKeywords[i]))

\* C16 witness: an upload ended in success after putting its series in the
\* place of the series of another file.
C16_Witness ==
    /\ replaced
    /\ status.type = "success"
    /\ transformedData # <<>>


\* The long-format file the adapter was called on, and what the call ended in.
LongFile == fileInput[1]

Called(op) == result.op = op

\* new Date accepts the text: what formatDate can turn into a date.
Parseable(dateStr) ==
    IF Len(dateStr) = 8 THEN AllDigits(dateStr) ELSE NewDate(dateStr).valid

\* A row with keyword, date and a position from 1 to 100.
HasValidPosition(row) ==
    /\ ParseIntText(row.Position).ok
    /\ ParseIntText(row.Position).n >= 1
    /\ ParseIntText(row.Position).n <= 100

ValidLongRow(row) ==
    row.Keyword # "" /\ row.Date # <<>> /\ Parseable(row.Date) /\ HasValidPosition(row)

BadDateRow(row) ==
    row.Keyword # "" /\ row.Date # <<>> /\ ~Parseable(row.Date) /\ HasValidPosition(row)

EmittedRows == {result.value.records[i].row : i \in 1..Len(result.value.records)}

\* C13: a long-format row whose Date cannot be parsed is dropped and
\* processing continues: the normalizer returns, with a record for every
\* other valid row of the same input and none for the row of the bad date.
C13_BadDateRowIsDropped ==
    (/\ Called("transformSEMrushData")
     /\ LongFile.header = REQUIRED_COLUMNS
     /\ \E r \in 1..Len(LongFile.rows) : BadDateRow(LongFile.rows[r]))
    => /\ result.value.threw = "none"
       /\ EmittedRows = {r \in 1..Len(LongFile.rows) : ValidLongRow(LongFile.rows[r])}

\* C15: when a required column is absent from a long-format input that has
\* rows, validation raises the missing-columns error, before any row is
\* filtered or mapped, and no record is emitted.
C15_MissingColumnsError ==
    (/\ Called("validateSEMrushFormat") \/ Called("transformSEMrushData")
     /\ Len(LongFile.rows) > 0
     /\ \E c \in {"Keyword", "Date", "Position"} :
            \A i \in 1..Len(LongFile.header) : LongFile.header[i] # c)
    => /\ result.value.threw = "Error"
       /\ result.value.message = "Missing required columns"
       /\ result.value.records = <<>>


OverTheThreshold(kd) ==
    LET ranks == PositionsOf(kd)
        n == Len(ranks) - 1
        c == [i \in 1..n |-> Abs(ranks[i + 1] - ranks[i])]
        V == n * Sum([i \in 1..n |-> c[i] * c[i]]) - Sum(c) * Sum(c)
        S == Sum(ranks)
    IN  /\ n >= 1
        /\ \/ S = 0 /\ V > 0
           \/ S > 0 /\ 10000 * V * (n + 1) * (n + 1) > 100 * n * n * S * S

AtTheThreshold(kd) ==
    /\ kd.volatilityScore.kind = "number"
    /\ kd.volatilityScore.num = 100 * kd.volatilityScore.den

\* C21: after calculateVolatility, volatileKeywords contains exactly the
\* keywords that have at least 2 points and whose score is strictly
\* greater than the threshold, each at most once.
C21_VolatileExactly ==
    /\ NoDuplicates(volatileKeywords)
    /\ {volatileKeywords[i] : i \in 1..Len(volatileKeywords)}
          = {kd.keyword : kd \in {k \in Series : OverTheThreshold(k)}}

\* C21 witness: calculateVolatility left a keyword of score 10 out of
\* volatileKeywords and put another one in.
C21_Witness ==
    /\ volatileKeywords # <<>>
    /\ \E kd \in Series : AtTheThreshold(kd) /\ ~InList(volatileKeywords, kd.keyword)

\* a >= b and a = b for two scores of volatile keywords (no NaN, not
\* negative).
ScoreAtLeast(a, b) ==
    \/ a.kind = "Infinity"
    \/ a.kind = "number" /\ b.kind = "number" /\ a.num * b.den >= b.num * a.den

SameScore(a, b) == ScoreAtLeast(a, b) /\ ScoreAtLeast(b, a)

KeywordIndex(keyword) == CHOOSE g \in 1..Len(keywords) : keywords[g].keyword = keyword

\* C22: after calculateVolatility, volatileKeywords is ordered by score
\* descending, and keywords of equal score are in the order of their series
\* in the keyword list.
C22_SortedByScore ==
    \A i \in 1..Len(volatileKeywords) : \A j \in (i + 1)..Len(volatileKeywords) :
        LET a == ScoreOf(keywords, volatileKeywords[i])
            b == ScoreOf(keywords, volatileKeywords[j])
        IN  /\ ScoreAtLeast(a, b)
            /\ SameScore(a, b) =>
                  KeywordIndex(volatileKeywords[i]) < KeywordIndex(volatileKeywords[j])

\* C22 witness: three volatile keywords, the first of the keyword list
\* behind two of equal score.
C22_Witness ==
    /\ Len(volatileKeywords) = 3
    /\ KeywordIndex(volatileKeywords[3]) = 1
    /\ SameScore(ScoreOf(keywords, volatileKeywords[1]), ScoreOf(keywords, volatileKeywords[2]))


\* Keyword and Date present, Position an integer from 1 to 100.
WithinTheWindow(row) == row.Keyword # "" /\ row.Date # <<>> /\ HasValidPosition(row)

\* C23: a long-format row is emitted if and only if its Keyword and Date
\* are present and its Position parses to an integer within the acceptance
\* window; every other row is skipped and the import does not abort.
C23_RowEmittedIff ==
    (/\ Called("transformSEMrushData")
     /\ LongFile.header = REQUIRED_COLUMNS
     /\ Len(LongFile.rows) > 0)
    => /\ result.value.threw = "none"
       /\ Len(result.value.records) = Cardinality(EmittedRows)
       /\ EmittedRows = {r \in 1..Len(LongFile.rows) : WithinTheWindow(LongFile.rows[r])}


\* The first record of a keyword in the order of the input.
FirstRecord(keyword) ==
    transformedData[CHOOSE i \in 1..Len(transformedData) :
        /\ GroupKey(transformedData[i].Keyword) = keyword
        /\ \A j \in 1..(i - 1) : GroupKey(transformedData[j].Keyword) # keyword]

\* The records of a keyword that no other record of it precedes by date.
EarliestRecords(keyword) ==
    {e \in Records :
        /\ GroupKey(e.Keyword) = keyword
        /\ \A f \in Records :
              GroupKey(f.Keyword) = keyword => ~StrLess(f.Date, e.Date)}

\* C24: the searchVolume of each keyword series is the volume of that
\* keyword's first record in original input order, whichever record is
\* chronologically first.
C24_VolumeOfFirstRecord ==
    keywords # <<>> =>
        \A kd \in Series : kd.searchVolume = FirstRecord(kd.keyword).Volume

\* C24 witness: a series whose only chronologically first record has
\* another volume than the series.
C24_Witness ==
    /\ keywords # <<>>
    /\ \E kd \in Series :
          /\ EarliestRecords(kd.keyword) # {}
          /\ \A e \in EarliestRecords(kd.keyword) : e.Volume # kd.searchVolume


\* C25: no pipeline stage mutates the output of another stage in place:
\* after a run the raw rows are the rows that were parsed, the record list
\* is the list the normalizer returned, and the keyword series objects are
\* as the Series Builder built them.
C25_NoStageMutatesAnother ==
    keywords # <<>> =>
        /\ rawData = fileInput[1]
        /\ transformedData = Transform(rawData)
        /\ keywords = processRawData(transformedData)


\* The analyzer states the files of the session family leave, per build.
StateOfFile(b, file) ==
    LET data == IF b = "v1" THEN transformSEMrushDataPlain(file)
                ELSE transformSEMrushData(file)
        scored == ScoredKeywords(processRawData(data))
    IN  [keywords |-> scored, volatileKeywords |-> VolatileKeywords(scored)]

StatesOfFiles ==
    [b \in Builds |->
        {StateOfFile(b, file) : file \in {f \in SessionFiles :
            IF b = "v1" THEN transformSEMrushDataPlain(f) # <<>>
            ELSE transformSEMrushData(f) # <<>>}}]

\* C26: when handleFileUpload invocations overlap, in every interleaving
\* the analyzer state after each handler step is consistent with a single
\* file: every entry of volatileKeywords names a series present in
\* keywords, and keywords and volatileKeywords are those of one file.
C26_StateOfASingleFile ==
    /\ \A i \in 1..Len(volatileKeywords) : HasKeyword(keywords, volatileKeywords[i])
    /\ \/ keywords = <<>> /\ volatileKeywords = <<>>
       \/ [keywords |-> keywords, volatileKeywords |-> volatileKeywords]
             \in StatesOfFiles[build]

\* C26 witness: a handler has just finished with the series of one file in
\* the place of those of another, while the read of a third invocation, of
\* another file again, is still awaited.
C26_Witness ==
    /\ status.type = "success"
    /\ replaced
    /\ pending # <<>>
    /\ pending[1] # rawData


\* What a query returns on the analyzer state as it is.
QueryValue(op, keyword) ==
    CASE op = "getKeywordData" -> KeywordDataOrNull(keywords, keyword)
      [] op = "calculateFibonacciLevels" -> calculateFibonacciLevels(keywords, keyword)
      [] op = "findFibonacciPatterns" -> findFibonacciPatterns(keywords, keyword)
      [] op = "calculateFibonacciReliability" ->
             calculateFibonacciReliability(keywords, keyword)
      [] op = "predictNextRanking" -> predictNextRanking(keywords, keyword)

\* C27: the query operations leave keywords, with every series and score,
\* and volatileKeywords unchanged, for known and unknown keywords alike, so
\* whatever queries were called before, a query returns what it returns on
\* the state the upload left.
C27_QueriesLeaveTheState ==
    [][result'.op # "none" =>
          /\ keywords' = keywords
          /\ volatileKeywords' = volatileKeywords
          /\ result'.value = QueryValue(result'.op, result'.keyword)]_vars

\* C27 witness: a query about a keyword the analyzer does not know has
\* returned, with series and volatile keywords in the analyzer.
C27_Witness ==
    /\ result.op = "predictNextRanking"
    /\ ~HasKeyword(keywords, result.keyword)
    /\ keywords # <<>>
    /\ volatileKeywords # <<>>


\* C28: every non-null level returned by predictNextRanking has a value
\* within [min(positions), max(positions)] of the series and lies on the
\* trend side of the current position: at or below it when the trend is
\* improving, at or above it when the trend is declining.
C28_PredictionOnTheTrendSide ==
    (Answered("predictNextRanking") /\ ~result.value.null) =>
        /\ \A lo \in RankSet(Asked) : IsLow(Asked, lo) => lo * Milli <= result.value.value
        /\ \A hi \in RankSet(Asked) : IsHigh(Asked, hi) => result.value.value <= hi * Milli
        /\ Improving(Asked) => result.value.value <= Current(Asked) * Milli
        /\ ~Improving(Asked) => result.value.value >= Current(Asked) * Milli

\* C28 witness: an improving series with a prediction strictly below the
\* current position.
C28_Witness ==
    /\ Answered("predictNextRanking")
    /\ ~result.value.null
    /\ Improving(Asked)
    /\ result.value.value < Current(Asked) * Milli

\* The keyword of a record as a property name (a missing keyword reads
\* "null"), letter for letter.
ExactKey(e) == IF e.Keyword = JsNull THEN "null" ELSE e.Keyword

Point(e) == [date |-> ToDate("text", e.Date), position |-> e.Position, url |-> e.URL]

\* The points the records of that exact keyword give, in input order.
PointsOfKeyword(keyword) ==
    LET recs == SelectSeq(transformedData, LAMBDA e : ExactKey(e) = keyword)
    IN  [i \in 1..Len(recs) |-> Point(recs[i])]

Occurrences(points, point) == Cardinality({i \in 1..Len(points) : points[i] = point})

\* C29: processRawData partitions its input records by exact keyword:
\* every record is exactly one point of exactly one series, the series of
\* its keyword, every series has at least one point, keyword names are
\* unique across series, and there are as many points as records.
C29_PartitionByKeyword ==
    keywords # <<>> =>
        /\ NoDuplicates([g \in 1..Len(keywords) |-> keywords[g].keyword])
        /\ \A kd \in Series : Len(kd.positions) >= 1
        /\ \A i \in 1..Len(transformedData) :
              \E kd \in Series : kd.keyword = ExactKey(transformedData[i])
        /\ \A kd \in Series :
              LET given == PointsOfKeyword(kd.keyword)
              IN  /\ Len(given) = Len(kd.positions)
                  /\ \A i \in 1..Len(given) :
                        Occurrences(kd.positions, given[i]) = Occurrences(given, given[i])
        /\ Len(SeriesRecords(keywords)) = Len(transformedData)

\* C29 witness: records of "shoes" and of "Shoes" in one input, each
\* keyword with a series of its own.
C29_Witness ==
    /\ keywords # <<>>
    /\ \E e \in Records : e.Keyword = "shoes"
    /\ \E e \in Records : e.Keyword = "Shoes"
    /\ \E kd \in Series : kd.keyword = "shoes" /\ Len(kd.positions) > 1
    /\ \E kd \in Series : kd.keyword = "Shoes"


\* C30: in the selection controller, after any sequence of
\* renderVolatileKeywordsList, handleKeywordSelect and handleSelectAll
\* events, the "analyze selected" button is disabled if and only if
\* selectedKeywords is empty.
C30_DisabledIffNoneSelected ==
    analyzeSelectedButton.disabled <=> selectedKeywords = {}


====
